---- MODULE Spec2Model ----
(***************************************************************************)
(* Low-rank cost geometry (ott/geometry/low_rank.py): a cost matrix        *)
(* C = A.B^T + bias kept as two factors, a bias and a scale policy.        *)
(*                                                                         *)
(* Numbers are exact: a value <<p, q, d>> stands for (p/q).sqrt(d) with    *)
(* q > 0 and d a square-free positive integer, so that the sqrt(scale)     *)
(* split of the scaled factors is computed, not assumed.  <<0, 0, 1>> is   *)
(* the single non-finite value (nan, +inf, -inf): no operation of the      *)
(* program maps a non-finite number back to a finite one.                  *)
(***************************************************************************)
EXTENDS Integers, Sequences, FiniteSets, TLC

(***************************************************************************)
(* Bounds of the explored inputs.                                          *)
(***************************************************************************)
MaxRank == 2
MaxDim == 2
BigDim == 8
MaxEntry == 1

(***************************************************************************)
(* Exact arithmetic for the jnp operations the geometry uses.              *)
(***************************************************************************)
AbsI(i) == IF i < 0 THEN -i ELSE i

RECURSIVE Gcd(_, _)
Gcd(a, b) == IF b = 0 THEN a ELSE Gcd(b, a % b)

NaN == <<0, 0, 1>>
Zero == <<0, 1, 1>>
One == <<1, 1, 1>>

IsFinite(x) == x[2] # 0

\* p/q in lowest terms, times sqrt(d)
Reduce(p, q, d, g) == <<p \div g, q \div g, d>>

Norm(p, q, d) == IF p = 0 THEN Zero ELSE Reduce(p, q, d, Gcd(AbsI(p), q))

Rat(i) == <<i, 1, 1>>

MulRad(x, y, g) ==
  Norm(x[1] * y[1] * g, x[2] * y[2], (x[3] \div g) * (y[3] \div g))

Mul(x, y) ==
  IF ~IsFinite(x) \/ ~IsFinite(y) THEN NaN ELSE MulRad(x, y, Gcd(x[3], y[3]))

\* the sum of two values of one radical, over the least common denominator
\* (g is the gcd of the denominators)
AddOver(x, y, g) ==
  Norm(x[1] * (y[2] \div g) + y[1] * (x[2] \div g), (x[2] \div g) * y[2], x[3])

\* x + y; two finite non-zero values are only ever added when they carry
\* the same radical (there is no case for the others).
Add(x, y) ==
  CASE ~IsFinite(x) \/ ~IsFinite(y) -> NaN
    [] IsFinite(x) /\ IsFinite(y) /\ x[1] = 0 -> y
    [] IsFinite(x) /\ IsFinite(y) /\ x[1] # 0 /\ y[1] = 0 -> x
    [] IsFinite(x) /\ IsFinite(y) /\ x[1] # 0 /\ y[1] # 0 /\ x[3] = y[3] ->
         AddOver(x, y, Gcd(x[2], y[2]))

AbsV(x) == IF IsFinite(x) THEN <<AbsI(x[1]), x[2], x[3]>> ELSE NaN

\* 1.0 / x in floating point: 1/0 is inf, not an exception.
Inv(x) ==
  IF ~IsFinite(x) \/ x[1] = 0 THEN NaN
  ELSE Norm((IF x[1] < 0 THEN -1 ELSE 1) * x[2], AbsI(x[1]) * x[3], x[3])

\* largest k with k*k dividing n (n >= 1)
SqPart(n) ==
  CHOOSE k \in 1..n :
    /\ n % (k * k) = 0
    /\ \A j \in (k + 1)..n : n % (j * j) # 0

SqrtPos(p, q, k) == Norm(k, q, (p * q) \div (k * k))

\* jnp.sqrt of a rational: nan below zero.
Sqrt(x) ==
  CASE ~IsFinite(x) -> NaN
    [] IsFinite(x) /\ x[1] < 0 -> NaN
    [] IsFinite(x) /\ x[1] = 0 -> Zero
    [] IsFinite(x) /\ x[1] > 0 /\ x[3] = 1 ->
         SqrtPos(x[1], x[2], SqPart(x[1] * x[2]))

\* |x| <= |y| for finite values, by comparing squares
LeqAbs(x, y) ==
  x[1] * x[1] * x[3] * y[2] * y[2] <= y[1] * y[1] * y[3] * x[2] * x[2]

\* x > 0 for a finite value
IsPos(x) == IsFinite(x) /\ x[1] > 0

(***************************************************************************)
(* Arrays: a vector is a sequence of values, a matrix a record of its      *)
(* shape and its rows (a matrix of shape [n, 0] has n empty rows).         *)
(***************************************************************************)
\* an array with its entries computed (a sequence given by a rule, made a
\* tuple)
Arr(f) == f \o <<>>

RECURSIVE SumFrom(_, _, _)
SumFrom(s, i, acc) ==
  IF i > Len(s) THEN acc ELSE SumFrom(s, i + 1, Add(acc, s[i]))

\* jnp.sum(s)
SumSeq(s) == SumFrom(s, 1, Zero)

Transpose(M) ==
  [nr |-> M.nc, nc |-> M.nr,
   e |-> Arr([k \in 1..M.nc |-> Arr([i \in 1..M.nr |-> M.e[i][k]])])]

\* jnp.dot(M, v) for a matrix and a vector of length M.nc
MatVec(M, v) ==
  Arr([i \in 1..M.nr |->
         SumSeq(Arr([k \in 1..M.nc |-> Mul(M.e[i][k], v[k])]))])

\* jnp.matmul(M, N)
MatMul(M, N) ==
  [nr |-> M.nr, nc |-> N.nc,
   e |-> Arr([i \in 1..M.nr |-> Arr([j \in 1..N.nc |->
            SumSeq(Arr([k \in 1..M.nc |-> Mul(M.e[i][k], N.e[k][j])]))])])]

\* broadcasts: M * s and M + s for a matrix, v + s for a vector
ScaleMat(M, s) ==
  [nr |-> M.nr, nc |-> M.nc,
   e |-> Arr([i \in 1..M.nr |-> Arr([k \in 1..M.nc |-> Mul(M.e[i][k], s)])])]

ShiftMat(M, s) ==
  [nr |-> M.nr, nc |-> M.nc,
   e |-> Arr([i \in 1..M.nr |-> Arr([k \in 1..M.nc |-> Add(M.e[i][k], s)])])]

ShiftVec(v, s) == Arr([i \in 1..Len(v) |-> Add(v[i], s)])

\* jnp.ones(n)
Ones(n) == Arr([i \in 1..n |-> One])

\* jnp.dot of two vectors
Dot(u, v) == SumSeq(Arr([k \in 1..Len(u) |-> Mul(u[k], v[k])]))

\* jnp.concatenate((M, N), axis=1)
ConcatCols(M, N) ==
  [nr |-> M.nr, nc |-> M.nc + N.nc,
   e |-> Arr([i \in 1..M.nr |-> M.e[i] \o N.e[i]])]

AbsEntries(M) == {AbsV(M.e[i][k]) : i \in 1..M.nr, k \in 1..M.nc}

Largest(S) == CHOOSE x \in S : \A y \in S : LeqAbs(y, x)

\* jnp.max(jnp.abs(M)), for a matrix with at least one entry
MaxAbs(M) == Largest(AbsEntries(M))

(***************************************************************************)
(* LRCGeometry.  An instance is the record of what __init__ stores:        *)
(* cost_1 and cost_2 are the raw factors (_cost_1, _cost_2), bias the raw  *)
(* bias, scale_cost the policy as given, kwargs the forwarded keywords.    *)
(* A policy is [t, v, s]: t is the Python type of the argument ("none",    *)
(* "float", "int", "str"), v its number, s its text.                       *)
(***************************************************************************)
NoneType == [t |-> "none", v |-> Zero, s |-> ""]
PyFloat(x) == [t |-> "float", v |-> x, s |-> ""]
PyInt(i) == [t |-> "int", v |-> Rat(i), s |-> ""]
PyStr(w) == [t |-> "str", v |-> Zero, s |-> w]

\* What a call gives: the value returned (val) or the exception raised
\* (err), the calls made inside (log) and the instances constructed (made).
Ok(x) == [err |-> "none", val |-> x, log |-> <<>>, made |-> <<>>]
Raise(e) == [err |-> e, val |-> <<>>, log |-> <<>>, made |-> <<>>]

\* the element of a set of one element: {e : x \in {d}} is e with d computed
\* once
The(S) == CHOOSE x \in S : TRUE

LRCGeometry(c1, c2, b, sc, kw) ==
  [cost_1 |-> c1, cost_2 |-> c2, bias |-> b, scale_cost |-> sc, kwargs |-> kw]

\* __init__ without its assert
InitAcceptsAny(c1, c2) == TRUE

\* the assert of __init__
InitAccepts(c1, c2) == c1.nc = c2.nc

\* __init__: the new instance, or the AssertionError
NewGeometry(c1, c2, b, sc, kw) ==
  IF InitAccepts(c1, c2)
  THEN [err |-> "none", val |-> <<>>, log |-> <<>>,
        made |-> <<LRCGeometry(c1, c2, b, sc, kw)>>]
  ELSE Raise("AssertionError")

cost_rank(g) == g.cost_1.nc

shape(g) == <<g.cost_1.nr, g.cost_2.nr>>

is_symmetric(g) ==
  /\ g.cost_1.nr = g.cost_2.nr
  /\ \A i \in 1..g.cost_1.nr : \A k \in 1..g.cost_1.nc :
       g.cost_1.e[i][k] = g.cost_2.e[i][k]

\* max_bound without the bias in the denominator
max_bound_without_bias(g) ==
  IF g.cost_1.nr * g.cost_1.nc = 0 \/ g.cost_2.nr * g.cost_2.nc = 0
  THEN Raise("ValueError")
  ELSE Ok(Inv(Mul(MaxAbs(g.cost_1), MaxAbs(g.cost_2))))

\* jnp.max of an array without entries raises
max_bound(g) ==
  IF g.cost_1.nr * g.cost_1.nc = 0 \/ g.cost_2.nr * g.cost_2.nc = 0
  THEN Raise("ValueError")
  ELSE Ok(Inv(Add(Mul(MaxAbs(g.cost_1), MaxAbs(g.cost_2)), AbsV(g.bias))))

\* the mean without the division by the number of entries
mean_cost_undivided(g) ==
  Add(Dot(MatVec(Transpose(g.cost_1), Ones(shape(g)[1])),
          MatVec(Transpose(g.cost_2), Ones(shape(g)[2]))),
      g.bias)

\* the mean of the raw cost, from the column sums of the factors
mean_cost(g) ==
  Add(Mul(Dot(MatVec(Transpose(g.cost_1), Ones(shape(g)[1])),
              MatVec(Transpose(g.cost_2), Ones(shape(g)[2]))),
          <<1, shape(g)[1] * shape(g)[2], 1>>),
      g.bias)

mean_scale(g) == Ok(Inv(mean_cost(g)))

\* scale_cost without the branch that rejects the other strings
scale_cost_other_strings_pass(g) ==
  IF g.scale_cost.t = "float" THEN Ok(g.scale_cost.v)
  ELSE IF g.scale_cost.t = "str" /\ g.scale_cost.s = "max_bound" THEN max_bound(g)
  ELSE IF g.scale_cost.t = "str" /\ g.scale_cost.s = "mean" THEN mean_scale(g)
  ELSE IF g.scale_cost.t = "str" /\ g.scale_cost.s = "max_cost"
       THEN Raise("NotImplementedError")
  ELSE Ok(One)

\* the scale_cost property: the branches in the order of the code
scale_cost(g) ==
  IF g.scale_cost.t = "float" THEN Ok(g.scale_cost.v)
  ELSE IF g.scale_cost.t = "str" /\ g.scale_cost.s = "max_bound" THEN max_bound(g)
  ELSE IF g.scale_cost.t = "str" /\ g.scale_cost.s = "mean" THEN mean_scale(g)
  ELSE IF g.scale_cost.t = "str" /\ g.scale_cost.s = "max_cost"
       THEN Raise("NotImplementedError")
  ELSE IF g.scale_cost.t = "str" THEN Raise("ValueError")
  ELSE Ok(One)

\* The properties below give the value returned when scale_cost returns;
\* Resolves(g) says that it does.
Resolves(g) == scale_cost(g).err = "none"

cost_1(g) == ScaleMat(g.cost_1, Sqrt(scale_cost(g).val))

cost_2(g) == ScaleMat(g.cost_2, Sqrt(scale_cost(g).val))

bias(g) == Mul(g.bias, scale_cost(g).val)

cost_matrix(g) == ShiftMat(MatMul(cost_1(g), Transpose(cost_2(g))), bias(g))

(***************************************************************************)
(* Elementwise functions a caller may pass as fn: "none" is fn=None,       *)
(* "double" is x -> 2x (linear), "square" is x -> x**2 (not linear).       *)
(***************************************************************************)
Fns == {"none", "double", "square"}

CallFn(fn, x) ==
  CASE fn = "none" -> x
    [] fn = "double" -> Mul(Rat(2), x)
    [] fn = "square" -> Mul(x, x)

\* geometry.is_linear
is_linear(fn) == fn = "double"

\* jnp.where(cond, x, y) for a scalar cond: a selection between two values
\* that the caller has both computed already
Where(cond, x, y) == IF cond THEN x ELSE y

\* fn(M): fn applied to every entry of a matrix
CallFnMat(fn, M) ==
  [nr |-> M.nr, nc |-> M.nc,
   e |-> Arr([i \in 1..M.nr |-> Arr([k \in 1..M.nc |-> CallFn(fn, M.e[i][k])])])]

\* Geometry._apply_cost_to_vec, the dense fallback: materializes cost_matrix
Geometry_apply_cost_to_vec(g, vec, axis, fn) ==
  MatVec(CallFnMat(fn, IF axis = 0 THEN Transpose(cost_matrix(g))
                       ELSE cost_matrix(g)),
         vec)

\* efficient_apply adding the bias once, not once per entry of vec
efficient_apply_bias_once(g, vec, axis, fn) ==
  ShiftVec(MatVec(IF axis = 1 THEN cost_1(g) ELSE cost_2(g),
                  MatVec(Transpose(CallFnMat(fn, IF axis = 1 THEN cost_2(g)
                                                 ELSE cost_1(g))), vec)),
           CallFn(fn, bias(g)))

efficient_apply(g, vec, axis, fn) ==
  ShiftVec(MatVec(IF axis = 1 THEN cost_1(g) ELSE cost_2(g),
                  MatVec(Transpose(CallFnMat(fn, IF axis = 1 THEN cost_2(g)
                                                 ELSE cost_1(g))),
                         vec)),
           Mul(CallFn(fn, bias(g)), SumSeq(vec)))

\* LRCGeometry._apply_cost_to_vec.  Both branches are arguments of jnp.where,
\* so Python evaluates both before the selection: efficient_apply first
\* (where a failing scale_cost raises), then the fallback of the base class.
apply_cost_to_vec(g, vec, axis, fn) ==
  IF ~Resolves(g)
  THEN [err |-> scale_cost(g).err, val |-> <<>>,
        log |-> <<"efficient_apply">>, made |-> <<>>]
  ELSE [err |-> "none",
        val |-> Where(fn = "none" \/ is_linear(fn),
                      efficient_apply(g, vec, axis, fn),
                      Geometry_apply_cost_to_vec(g, vec, axis, fn)),
        log |-> <<"efficient_apply", "Geometry._apply_cost_to_vec",
                  "cost_matrix">>,
        made |-> <<>>]

\* Geometry.apply_cost on a 1-d array: the array becomes one column, to
\* which the subclass's _apply_cost_to_vec is applied
Geometry_apply_cost(g, arr, axis, fn) == apply_cost_to_vec(g, arr, axis, fn)

\* Geometry.apply_square_cost
Geometry_apply_square_cost(g, arr, axis) ==
  Geometry_apply_cost(g, arr, axis, "square")

\* factor[:, :, None] * factor[:, None, :] reshaped to (rows, r**2)
Augment(M) ==
  [nr |-> M.nr, nc |-> M.nc * M.nc,
   e |-> Arr([i \in 1..M.nr |-> Arr([c \in 1..(M.nc * M.nc) |->
            Mul(M.e[i][((c - 1) \div M.nc) + 1],
                M.e[i][((c - 1) % M.nc) + 1])])])]

\* the augmented geometry built from the factors as passed to __init__,
\* before the rescaling
Augmented_unscaled(g) ==
  NewGeometry(Augment(g.cost_1), Augment(g.cost_2), Zero, NoneType, "{}")

\* the geometry apply_square_cost builds in its else branch: bias, scale_cost
\* and kwargs take the defaults of __init__
Augmented(g) ==
  NewGeometry(Augment(cost_1(g)), Augment(cost_2(g)), Zero, NoneType, "{}")

\* r, the outcome of a call on the new instance, as the outcome of the call
\* that constructed it
OnNew(new, r) ==
  [err |-> r.err, val |-> r.val, log |-> <<"LRCGeometry">> \o r.log,
   made |-> <<new>>]

ApplyNew(new, arr, axis) ==
  The({OnNew(new, r) : r \in {Geometry_apply_cost(new, arr, axis, "none")}})

UseDirect(g) ==
  shape(g)[1] * shape(g)[2]
    < (shape(g)[1] + shape(g)[2]) * cost_rank(g) * cost_rank(g)

apply_square_cost(g, arr, axis) ==
  IF UseDirect(g) THEN Geometry_apply_square_cost(g, arr, axis)
  ELSE IF ~Resolves(g) THEN Raise(scale_cost(g).err)
  ELSE The({ApplyNew(new.made[1], arr, axis) : new \in {Augmented(g)}})

apply_cost_1(g, vec, axis) ==
  IF ~Resolves(g) THEN Raise(scale_cost(g).err)
  ELSE Ok(MatVec(IF axis = 0 THEN cost_1(g) ELSE Transpose(cost_1(g)), vec))

apply_cost_2(g, vec, axis) ==
  IF ~Resolves(g) THEN Raise(scale_cost(g).err)
  ELSE Ok(MatVec(IF axis = 0 THEN cost_2(g) ELSE Transpose(cost_2(g)), vec))

\* tree_flatten: (children, aux_data)
tree_flatten(g) ==
  [children |-> <<g.cost_1, g.cost_2, g.kwargs>>,
   aux_data |-> [bias |-> g.bias, scale_cost |-> g.scale_cost]]

\* tree_unflatten: cls(*children[:-1], **children[-1], **aux_data)
tree_unflatten(aux_data, children) ==
  NewGeometry(children[1], children[2], aux_data.bias, aux_data.scale_cost,
              children[3])

\* add_lrc_geom: the scaled factors side by side; bias and scale_cost are
\* not passed on and take the defaults of __init__.  jnp.concatenate raises
\* on operands of different numbers of rows.
add_lrc_geom(geom1, geom2) ==
  IF ~Resolves(geom1) THEN Raise(scale_cost(geom1).err)
  ELSE IF ~Resolves(geom2) THEN Raise(scale_cost(geom2).err)
  ELSE IF geom1.cost_1.nr # geom2.cost_1.nr \/ geom1.cost_2.nr # geom2.cost_2.nr
       THEN Raise("TypeError")
  ELSE NewGeometry(ConcatCols(cost_1(geom1), cost_1(geom2)),
                   ConcatCols(cost_2(geom1), cost_2(geom2)),
                   Zero, NoneType, geom1.kwargs)

(***************************************************************************)
(* The program as a state machine.  geom is the sequence of the instances  *)
(* the caller holds, call the last call made, and out what that call       *)
(* returned or raised, with the calls it made inside (log) and the         *)
(* instances it constructed (made).  Every operation leaves the instance   *)
(* it is called on as it is.                                               *)
(***************************************************************************)
VARIABLES geom, call, out

vars == <<geom, call, out>>

Entries == (0 - MaxEntry)..MaxEntry

Signs == {0 - 1, 0, 1}

Ranks == 0..MaxRank

\* the shapes with 1 or MaxDim rows in each factor
SmallShapes == {1, MaxDim} \X {1, MaxDim}

AllShapes == SmallShapes \cup {<<BigDim, BigDim>>}

\* input factors: a and b alternate like the squares of a chessboard
Factor(n, r, a, b) ==
  [nr |-> n, nc |-> r,
   e |-> Arr([i \in 1..n |->
               Arr([k \in 1..r |-> Rat(IF (i + k) % 2 = 0 THEN a ELSE b)])])]

\* input factors: c in the first corner, 1 elsewhere
Corner(n, r, c) ==
  [nr |-> n, nc |-> r,
   e |-> Arr([i \in 1..n |->
               Arr([k \in 1..r |-> Rat(IF i + k = 2 THEN c ELSE 1)])])]

\* input vectors: p at the odd places, 1 at the even ones
Vec(n, p) == Arr([i \in 1..n |-> Rat(IF i % 2 = 1 THEN p ELSE 1)])

VecSeeds == {0, MaxEntry + 1}

Half == <<1, 2, 1>>

\* the policies whose scale resolves for every factor with an entry
NumPolicies == {NoneType, PyFloat(Half), PyStr("max_bound"), PyStr("mean")}

Policies ==
  NumPolicies \cup {PyFloat(Rat(2)), PyInt(2), PyStr("max_cost"), PyStr("max")}

\* geometries of rank r in Ranks over the given shapes and policies
Geoms(shapes, policies) ==
  {LRCGeometry(Factor(s[1], r, a, b), Corner(s[2], r, c), Rat(bs), sc, "{}") :
     s \in shapes, r \in Ranks, a \in Entries, b \in Entries, c \in Signs,
     bs \in Signs, sc \in policies}

Call(op, vec, axis, fn, cols) ==
  [op |-> op, vec |-> vec, axis |-> axis, fn |-> fn, cols |-> cols]

NoArgs(op) == Call(op, <<>>, 0, "none", <<0, 0>>)

Properties == {"scale_cost", "cost_1", "cost_2", "bias", "cost_matrix"}

\* reading a property that resolves the scale
Property(g, op) ==
  IF ~Resolves(g) THEN Raise(scale_cost(g).err)
  ELSE CASE op = "scale_cost" -> Ok(scale_cost(g).val)
         [] op = "cost_1" -> Ok(cost_1(g))
         [] op = "cost_2" -> Ok(cost_2(g))
         [] op = "bias" -> Ok(bias(g))
         [] op = "cost_matrix" -> Ok(cost_matrix(g))

Init ==
  /\ geom = <<>>
  /\ call = NoArgs("start")
  /\ out = Ok(<<>>)

\* LRCGeometry(cost_1, cost_2, bias, scale_cost, **kwargs): the caller holds
\* the new instance, or gets the AssertionError of __init__ and no instance
Construct(c1, c2, b, sc, kw) ==
  /\ call' = Call("LRCGeometry", <<>>, 0, "none", <<c1.nc, c2.nc>>)
  /\ out' = NewGeometry(c1, c2, b, sc, kw)
  /\ geom' = geom \o out'.made

ReadProperty(op) ==
  /\ Len(geom) = 1
  /\ call' = NoArgs(op)
  /\ out' = Property(geom[1], op)
  /\ UNCHANGED geom

CallApplyCostToVec(p, axis, fn) ==
  /\ Len(geom) = 1
  /\ call' = Call("apply_cost_to_vec", Vec(shape(geom[1])[axis + 1], p),
                  axis, fn, <<0, 0>>)
  /\ out' = apply_cost_to_vec(geom[1], call'.vec, axis, fn)
  /\ UNCHANGED geom

CallApplySquareCost(p, axis) ==
  /\ Len(geom) = 1
  /\ call' = Call("apply_square_cost", Vec(shape(geom[1])[axis + 1], p),
                  axis, "none", <<0, 0>>)
  /\ out' = apply_square_cost(geom[1], call'.vec, axis)
  /\ UNCHANGED geom

CallApplyCost1(p, axis) ==
  /\ Len(geom) = 1
  /\ call' = Call("apply_cost_1",
                  Vec(IF axis = 0 THEN cost_rank(geom[1])
                      ELSE shape(geom[1])[1], p),
                  axis, "none", <<0, 0>>)
  /\ out' = apply_cost_1(geom[1], call'.vec, axis)
  /\ UNCHANGED geom

CallApplyCost2(p, axis) ==
  /\ Len(geom) = 1
  /\ call' = Call("apply_cost_2",
                  Vec(IF axis = 0 THEN cost_rank(geom[1])
                      ELSE shape(geom[1])[2], p),
                  axis, "none", <<0, 0>>)
  /\ out' = apply_cost_2(geom[1], call'.vec, axis)
  /\ UNCHANGED geom

\* tree_unflatten(aux_data, children) on what tree_flatten() gave
CallTreeRoundTrip ==
  /\ Len(geom) = 1
  /\ call' = Call("tree_unflatten", <<>>, 0, "none",
                  <<geom[1].cost_1.nc, geom[1].cost_2.nc>>)
  /\ out' = tree_unflatten(tree_flatten(geom[1]).aux_data,
                           tree_flatten(geom[1]).children)
  /\ UNCHANGED geom

CallAddLrcGeom(g1, g2) ==
  /\ call' = NoArgs("add_lrc_geom")
  /\ out' = add_lrc_geom(g1, g2)
  /\ UNCHANGED geom

(***************************************************************************)
(* Spec: every operation, in any order, on an instance of any policy.      *)
(***************************************************************************)
Build ==
  /\ Len(geom) = 0
  /\ \E s \in SmallShapes : \E r1 \in Ranks : \E r2 \in Ranks :
       \E bs \in Entries : \E sc \in Policies :
         Construct(Factor(s[1], r1, 1, 0), Factor(s[2], r2, 1, 1),
                   Rat(bs), sc, "{}")

Read == \E op \in Properties : ReadProperty(op)

ApplyVec ==
  \E axis \in {0, 1} : \E fn \in Fns : CallApplyCostToVec(0, axis, fn)

ApplySquare == \E axis \in {0, 1} : CallApplySquareCost(0, axis)

ApplyFactor ==
  \E axis \in {0, 1} : CallApplyCost1(1, axis) \/ CallApplyCost2(1, axis)

\* the second operand of a merge: of the same shape or of one row more
Partners(g) ==
  {LRCGeometry(Factor(n, r, 1, 0), Factor(shape(g)[2], r, 1, 1),
               Rat(1), sc, "{}") :
     n \in {shape(g)[1], shape(g)[1] + 1}, r \in {1},
     sc \in {NoneType, PyStr("max_cost")}}

Merge ==
  /\ Len(geom) = 1
  /\ \E g2 \in Partners(geom[1]) : CallAddLrcGeom(geom[1], g2)

Next ==
  \/ Build
  \/ Read
  \/ ApplyVec
  \/ ApplySquare
  \/ ApplyFactor
  \/ CallTreeRoundTrip
  \/ Merge

Spec == Init /\ [][Next]_vars

(***************************************************************************)
(* SpecApply: apply_cost_to_vec with fn=None on geometries of every small  *)
(* shape, rank, sign of entries and bias, under the policies that give a   *)
(* number.                                                                 *)
(***************************************************************************)
BuildApply ==
  /\ Len(geom) = 0
  /\ \E g \in Geoms(SmallShapes, NumPolicies) :
       Construct(g.cost_1, g.cost_2, g.bias, g.scale_cost, g.kwargs)

ApplyVecAny ==
  \E p \in VecSeeds : \E axis \in {0, 1} : CallApplyCostToVec(p, axis, "none")

NextApply ==
  \/ BuildApply
  \/ ApplyVecAny

SpecApply == Init /\ [][NextApply]_vars

\* the scale resolves to a positive finite number
PositiveScale(g) == Resolves(g) /\ IsPos(scale_cost(g).val)

\* the entries of a matrix
EntriesOf(M) == {M.e[i][k] : i \in 1..M.nr, k \in 1..M.nc}

\* the scale resolves and every entry of the cost matrix is a finite number
FiniteCost(g) ==
  Resolves(g) /\ \A x \in EntriesOf(cost_matrix(g)) : IsFinite(x)

\* apply_cost_to_vec(vec, axis, fn=None) has returned
AppliedVec(axis) ==
  /\ call.op = "apply_cost_to_vec"
  /\ call.axis = axis
  /\ call.fn = "none"
  /\ out.err = "none"

\* C1, as claimed: apply_cost_to_vec(vec, axis=0, fn=None) is the dense
\* product cost_matrix . vec (stated where that product exists: n = m and
\* the entries of the cost matrix are finite).
C1_Claimed ==
  /\ AppliedVec(0)
  /\ shape(geom[1])[1] = shape(geom[1])[2]
  /\ FiniteCost(geom[1])
  => out.val = MatVec(cost_matrix(geom[1]), call.vec)

\* C1, amended: on a geometry whose cost matrix has finite entries and with
\* fn=None, axis=0 returns the dense product of the transposed cost matrix
\* with vec (vec has one entry per row of the cost matrix), and axis=1 the
\* dense product of the cost matrix itself with vec.
C1_TransposedAtAxis0 ==
  /\ AppliedVec(0) /\ FiniteCost(geom[1])
       => out.val = MatVec(Transpose(cost_matrix(geom[1])), call.vec)
  /\ AppliedVec(1) /\ FiniteCost(geom[1])
       => out.val = MatVec(cost_matrix(geom[1]), call.vec)

\* a square, non-symmetric, biased and rescaled cost applied along axis 0
C1_Witness ==
  /\ AppliedVec(0)
  /\ shape(geom[1]) = <<MaxDim, MaxDim>>
  /\ cost_rank(geom[1]) = 2
  /\ geom[1].bias # Zero
  /\ geom[1].scale_cost = PyStr("max_bound")
  /\ IsFinite(out.val[1]) /\ out.val[1] # Zero
  /\ out.val = MatVec(Transpose(cost_matrix(geom[1])), call.vec)
  /\ out.val # MatVec(cost_matrix(geom[1]), call.vec)

(***************************************************************************)
(* SpecSquare: apply_square_cost on both sides of the comparison of n.m    *)
(* with (n+m).r^2; the shape <<BigDim, BigDim>> takes the factored branch  *)
(* at rank 2.                                                              *)
(***************************************************************************)
BuildSquare ==
  /\ Len(geom) = 0
  /\ \E g \in Geoms(AllShapes, NumPolicies) :
       Construct(g.cost_1, g.cost_2, g.bias, g.scale_cost, g.kwargs)

ApplySquareAny == \E axis \in {0, 1} : CallApplySquareCost(MaxEntry + 1, axis)

NextSquare ==
  \/ BuildSquare
  \/ ApplySquareAny

SpecSquare == Init /\ [][NextSquare]_vars

\* the elementwise square of the cost matrix, laid out for a product along
\* axis: transposed for axis 0, where arr has one entry per row
SquaredCost(g, axis) ==
  CallFnMat("square",
            IF axis = 0 THEN Transpose(cost_matrix(g)) ELSE cost_matrix(g))

\* apply_square_cost(arr, axis) has returned
AppliedSquare == call.op = "apply_square_cost" /\ out.err = "none"

\* C3: with bias = 0, on every geometry whose cost matrix has finite entries,
\* apply_square_cost(arr, axis) is the elementwise square of the cost matrix
\* times arr, in the direct and in the factored strategy.
C3_SquareOfUnbiased ==
  AppliedSquare /\ geom[1].bias = Zero /\ FiniteCost(geom[1])
    => out.val = MatVec(SquaredCost(geom[1], call.axis), call.vec)

\* the factored strategy at rank 2 on a rescaled cost, with a result other
\* than zero
C3_Witness ==
  /\ AppliedSquare
  /\ geom[1].bias = Zero
  /\ ~UseDirect(geom[1])
  /\ cost_rank(geom[1]) = 2
  /\ geom[1].scale_cost = PyFloat(Half)
  /\ Len(out.made) = 1 /\ cost_rank(out.made[1]) = 4
  /\ IsFinite(out.val[1]) /\ out.val[1] # Zero
  /\ out.val = MatVec(SquaredCost(geom[1], call.axis), call.vec)

\* C4: whatever the bias and the strategy, apply_square_cost(arr, axis) is
\* the elementwise square of the geometry's own cost matrix times arr
\* (stated for rank >= 1 and a cost matrix of finite entries).
C4_SquareOfOwnCost ==
  AppliedSquare /\ cost_rank(geom[1]) >= 1 /\ FiniteCost(geom[1])
    => out.val = MatVec(SquaredCost(geom[1], call.axis), call.vec)

(***************************************************************************)
(* SpecScale: the properties of geometries under the policies that compute *)
(* the scale from the factors and the bias.                                *)
(***************************************************************************)
BuildScale ==
  /\ Len(geom) = 0
  /\ \E g \in Geoms(SmallShapes, {PyStr("mean"), PyStr("max_bound")}) :
       Construct(g.cost_1, g.cost_2, g.bias, g.scale_cost, g.kwargs)

NextScale ==
  \/ BuildScale
  \/ Read

SpecScale == Init /\ [][NextScale]_vars

\* the property op of a geometry of the policy has been read
HasRead(op, policy) ==
  /\ call.op = op
  /\ Len(geom) = 1
  /\ geom[1].scale_cost = PyStr(policy)

\* the mean of the entries of a matrix
MeanEntries(M) ==
  Mul(SumSeq(Arr([i \in 1..M.nr |-> SumSeq(M.e[i])])),
      <<1, M.nr * M.nc, 1>>)

\* the mean of the entries of the raw cost A.B^T + bias, entry by entry
RawMean(g) ==
  MeanEntries(ShiftMat(MatMul(g.cost_1, Transpose(g.cost_2)), g.bias))

\* C6, as claimed: under "mean", with any factors (of rank >= 1) and bias,
\* the scale is 1 / (mean of the raw cost), it is positive, and the mean of
\* the entries of the scaled cost matrix is 1.
C6_Claimed ==
  /\ HasRead("scale_cost", "mean") /\ cost_rank(geom[1]) >= 1
       => out.err = "none" /\ out.val = Inv(RawMean(geom[1])) /\ IsPos(out.val)
  /\ HasRead("cost_matrix", "mean") /\ cost_rank(geom[1]) >= 1
       => out.err = "none" /\ MeanEntries(out.val) = One

\* C6, amended: under "mean", when the mean of the raw cost is positive, the
\* scale is 1 / (mean of the raw cost), it is positive, and the mean of the
\* entries of the scaled cost matrix is 1.
C6_MeanOfPositiveCost ==
  /\ HasRead("scale_cost", "mean") /\ IsPos(RawMean(geom[1]))
       => out.err = "none" /\ out.val = Inv(RawMean(geom[1])) /\ IsPos(out.val)
  /\ HasRead("cost_matrix", "mean") /\ IsPos(RawMean(geom[1]))
       => out.err = "none" /\ MeanEntries(out.val) = One

\* a biased rank-2 cost of unequal entries, rescaled to mean 1
C6_Witness ==
  /\ HasRead("cost_matrix", "mean")
  /\ shape(geom[1]) = <<MaxDim, MaxDim>>
  /\ cost_rank(geom[1]) = 2
  /\ geom[1].bias # Zero
  /\ scale_cost(geom[1]).val \notin {One, NaN}
  /\ out.err = "none"
  /\ out.val.e[1][1] # out.val.e[1][2]
  /\ MeanEntries(out.val) = One

\* C10, as claimed: max|cost_1|.max|cost_2| bounds every entry of A.B^T, and
\* under "max_bound" every entry of the scaled cost matrix is at most 1 in
\* absolute value (stated where the scale is a positive finite number).
C10_Claimed ==
  HasRead("cost_matrix", "max_bound") /\ PositiveScale(geom[1])
    => /\ \A x \in EntriesOf(MatMul(geom[1].cost_1, Transpose(geom[1].cost_2))) :
            LeqAbs(x, Mul(MaxAbs(geom[1].cost_1), MaxAbs(geom[1].cost_2)))
       /\ \A x \in EntriesOf(out.val) : IsFinite(x) /\ LeqAbs(x, One)

\* C10, amended: r.max|cost_1|.max|cost_2| bounds every entry of A.B^T, and
\* under "max_bound", when max|cost_1|.max|cost_2| + |bias| is positive,
\* every entry of the scaled cost matrix is at most r in absolute value
\* (at most 1 for rank 1).
C10_BoundTimesRank ==
  HasRead("cost_matrix", "max_bound") /\ PositiveScale(geom[1])
    => /\ out.err = "none"
       /\ \A x \in EntriesOf(MatMul(geom[1].cost_1, Transpose(geom[1].cost_2))) :
            LeqAbs(x, Mul(Rat(cost_rank(geom[1])),
                          Mul(MaxAbs(geom[1].cost_1), MaxAbs(geom[1].cost_2))))
       /\ \A x \in EntriesOf(out.val) :
            IsFinite(x) /\ LeqAbs(x, Rat(cost_rank(geom[1])))

\* a rank-2 cost whose largest scaled entry is 2, and a biased one
C10_Witness ==
  /\ HasRead("cost_matrix", "max_bound")
  /\ cost_rank(geom[1]) = 2
  /\ geom[1].bias = Zero
  /\ out.err = "none"
  /\ Rat(2) \in EntriesOf(out.val)
  /\ \A x \in EntriesOf(out.val) : LeqAbs(x, Rat(2))

(***************************************************************************)
(* SpecMerge: add_lrc_geom on two instances the caller holds.              *)
(***************************************************************************)
Operands ==
  {LRCGeometry(Factor(s[1], r, a, 1), Factor(s[2], r, 1, a), Rat(bs), sc, "{}") :
     s \in {<<1, MaxDim>>, <<MaxDim, MaxDim>>}, r \in Ranks, a \in Entries,
     bs \in Entries, sc \in {NoneType, PyFloat(Half)}}

BuildOperand ==
  /\ Len(geom) < 2
  /\ \E g \in Operands :
       Construct(g.cost_1, g.cost_2, g.bias, g.scale_cost, g.kwargs)

MergeHeld ==
  /\ Len(geom) = 2
  /\ CallAddLrcGeom(geom[1], geom[2])

NextMerge ==
  \/ BuildOperand
  \/ MergeHeld

SpecMerge == Init /\ [][NextMerge]_vars

\* the entrywise sum of two matrices of one shape
MatAdd(M, N) ==
  [nr |-> M.nr, nc |-> M.nc,
   e |-> Arr([i \in 1..M.nr |->
               Arr([k \in 1..M.nc |-> Add(M.e[i][k], N.e[i][k])])])]

\* add_lrc_geom(geom[1], geom[2]) has been called on two geometries of one
\* shape, of rank >= 1 and finite cost entries, of which at least one has
\* bias = 0
MergedOneUnbiased ==
  /\ call.op = "add_lrc_geom"
  /\ Len(geom) = 2
  /\ shape(geom[1]) = shape(geom[2])
  /\ cost_rank(geom[1]) >= 1 /\ cost_rank(geom[2]) >= 1
  /\ FiniteCost(geom[1]) /\ FiniteCost(geom[2])
  /\ geom[1].bias = Zero \/ geom[2].bias = Zero

\* C5: the merge of two geometries of one shape, at least one of them with
\* bias = 0, is a new geometry of rank r1 + r2 whose cost matrix is the sum
\* of the cost matrices of the two.
C5_SumOfCosts ==
  MergedOneUnbiased
    => /\ out.err = "none"
       /\ Len(out.made) = 1
       /\ cost_rank(out.made[1]) = cost_rank(geom[1]) + cost_rank(geom[2])
       /\ cost_matrix(out.made[1])
            = MatAdd(cost_matrix(geom[1]), cost_matrix(geom[2]))

(***************************************************************************)
(* Properties of Spec.                                                     *)
(***************************************************************************)
\* the calls made inside the last call
Logged == {out.log[i] : i \in 1..Len(out.log)}

\* C2: a call of apply_cost_to_vec with fn absent or linear never builds the
\* cost matrix and never invokes the dense fallback of the base geometry.
C2_NoDenseWhenLinear ==
  call.op = "apply_cost_to_vec" /\ (call.fn = "none" \/ is_linear(call.fn))
    => "cost_matrix" \notin Logged /\ "Geometry._apply_cost_to_vec" \notin Logged

\* the calls that resolve the scale of the instance they are made on
ResolvingOps ==
  Properties \cup {"apply_cost_to_vec", "apply_square_cost", "apply_cost_1",
                   "apply_cost_2", "add_lrc_geom"}

\* the instance held has a string policy other than "max_bound" and "mean"
BadPolicy ==
  /\ Len(geom) = 1
  /\ geom[1].scale_cost.t = "str"
  /\ geom[1].scale_cost.s \notin {"max_bound", "mean"}

\* C7: construction depends on the columns only, so it succeeds with any
\* policy string; on an instance with a string policy other than "max_bound"
\* and "mean", every call that resolves the scale raises, NotImplementedError
\* for "max_cost" and ValueError for any other string, returns no value and
\* constructs nothing, after any sequence of calls.
C7_BadPolicyAlwaysRaises ==
  /\ call.op = "LRCGeometry" /\ call.cols[1] = call.cols[2]
       => out.err = "none" /\ Len(out.made) = 1
  /\ BadPolicy /\ call.op \in ResolvingOps
       => /\ out.err = IF geom[1].scale_cost.s = "max_cost"
                       THEN "NotImplementedError" ELSE "ValueError"
          /\ out.val = <<>>
          /\ out.made = <<>>

\* apply_square_cost on an instance of policy "max_cost" has raised
C7_Witness ==
  /\ BadPolicy
  /\ geom[1].scale_cost.s = "max_cost"
  /\ cost_rank(geom[1]) = 1
  /\ call.op = "apply_square_cost"
  /\ out.err = "NotImplementedError"

\* the instances that exist: those the caller holds and those the last call
\* constructed
Instances ==
  {geom[i] : i \in 1..Len(geom)} \cup {out.made[i] : i \in 1..Len(out.made)}

\* C8, as claimed: every instance has factors of equal numbers of columns
\* and rank >= 1.
C8_Claimed ==
  \A g \in Instances : g.cost_1.nc = g.cost_2.nc /\ cost_rank(g) >= 1

\* C8, amended: every instance, however built, has factors of equal numbers
\* of columns (the rank may be 0); a construction with factors of different
\* numbers of columns raises AssertionError and yields no instance.
C8_EqualColumns ==
  /\ \A g \in Instances : g.cost_1.nc = g.cost_2.nc
  /\ call.op = "LRCGeometry" /\ call.cols[1] # call.cols[2]
       => out.err = "AssertionError" /\ out.made = <<>> /\ geom = <<>>

\* a construction with factors of 1 and 2 columns has failed
C8_Witness ==
  /\ call.op = "LRCGeometry"
  /\ call.cols = <<1, 2>>
  /\ out.err = "AssertionError"
  /\ Instances = {}

\* C9: a fixed positive scalar policy, integer-valued or fractional, is
\* returned unchanged by scale_cost, and the cost matrix is that scalar
\* times the raw cost.
C9_FixedScalarUnchanged ==
  /\ Len(geom) = 1
  /\ geom[1].scale_cost.t \in {"float", "int"}
  /\ IsPos(geom[1].scale_cost.v)
  => /\ call.op = "scale_cost" => out.val = geom[1].scale_cost.v
     /\ call.op = "cost_matrix"
          => out.val = ScaleMat(ShiftMat(MatMul(geom[1].cost_1,
                                                 Transpose(geom[1].cost_2)),
                                          geom[1].bias),
                                geom[1].scale_cost.v)

====
